---- MODULE Spec2Model ----
(***************************************************************************)
(* NightLayer (maplibre-gl-nightlayer, src/src/main.ts): the custom layer  *)
(* object, the host map it is attached to, the browser's interval timers   *)
(* and the WebGL buffers it uploads its geometry into.                     *)
(***************************************************************************)
EXTENDS Integers, Sequences, FiniteSets, TLC

VARIABLES
  date,                 \* #date: None (null, "now") or Some(fixed date)
  opacity,              \* #opacity, in thousandths
  color,                \* #color: <<r, g, b, a>>, each 0 .. 255
  daytimeColor,         \* #daytimeColor: <<r, g, b, a>>, each 0 .. 255
  twilightSteps,        \* #twilightSteps
  twilightAttenuation,  \* #twilightAttenuation, in thousandths
  updateInterval,       \* #updateInterval, milliseconds
  updateIntervalTimer,  \* #updateIntervalTimer: None or Some(timer id)
  programCache,         \* #programCache: None or Some(set of <<key, program>>)
  map,                  \* #map: None or Some("map")
  vbo,                  \* #vbo: None or Some("vbo")
  ibo,                  \* #ibo: None or Some("ibo")
  indices,              \* #indices: None or Some(index count)
  modelSignature,       \* #modelSignature: None or Some(signature string)
  timers,               \* browser: ids of the interval timers that are armed
  nextTimer,            \* browser: the id the next setInterval returns
  repaintPending,       \* host: a repaint has been requested and not yet drawn
  projection,           \* host: map.style.projection.name
  bounds,               \* host: <<west, east>> longitudes of map.getBounds()
  vboData,              \* GL: contents of the buffer #vbo refers to
  iboData,              \* GL: contents of the buffer #ibo refers to
  shade,                \* the fragment shader's shading of one fragment
  solar,                \* one evaluation of getSubsolarPoint
  uniforms,             \* GL: the uniforms the last draw call was submitted with
  compiled,             \* GL: per program key, the programs created for it
                        \* during the current attachment of the layer
  frame,                \* what the last call of render did
  options,              \* the options the constructor was called with, while the
                        \* constructor is the last thing that happened (else None)
  lastOp                \* the handler of the layer that ran last ("host": none, the
                        \* host or the browser acted last)

vars == <<date, opacity, color, daytimeColor, twilightSteps, twilightAttenuation,
          updateInterval, updateIntervalTimer, programCache, map, vbo, ibo,
          indices, modelSignature, timers, nextTimer, repaintPending, projection,
          bounds, vboData, iboData, uniforms, compiled, shade, solar, frame, options,
          lastOp>>

paramVars == <<opacity, color, daytimeColor, twilightSteps, twilightAttenuation>>

layerVars == <<date, paramVars, updateInterval, updateIntervalTimer, programCache, map,
               vbo, ibo, indices, modelSignature>>

hostVars == <<timers, nextTimer, repaintPending, projection, bounds, vboData, iboData,
              uniforms, compiled, frame, options, lastOp>>

-----------------------------------------------------------------------------
(* Optional values: undefined / null is the empty tuple.                   *)
None == <<>>
Some(x) == <<x>>

(* Bounds of the model.                                                    *)
MaxTimers == 3

(* Timestamps a caller passes as a fixed date: <<day of year, ms of day>>. *)
FixedDates == {<<172, 43200000>>}

(* Values a caller passes as updateInterval.                               *)
DefaultUpdateInterval == 10000
Intervals == {-1000, 0, DefaultUpdateInterval}

(* Values a caller passes as opacity and as twilightAttenuation (in        *)
(* thousandths), as twilightSteps, as color and as daytimeColor (the alpha *)
(* entry of a colour is optional).                                         *)
Milli == 10 ^ 3
DefaultOpacity == Milli \div 2
DefaultColor == <<0, 0, 0, 255>>
DefaultDaytimeColor == <<0, 0, 0, 0>>
DefaultTwilightSteps == 0
DefaultTwilightAttenuation == Milli \div 2
Opacities == {DefaultOpacity, Milli}
Colors == {<<255, 128, 0>>}
DaytimeColors == {<<255, 255, 255, 128>>}
TwilightStepCounts == {2}
TwilightAttenuations == {Milli \div 4}

(* What new Date() returns during a call of render, <<day of year, ms>>:   *)
(* Clocks where the parameters stay as constructed (the instant callers    *)
(* fix the date to), FrameClocks where they are set.                       *)
Clocks == {<<172, 43200000>>}
FrameClocks == {<<172, 43200000>>, <<355, 0>>}

(* Longitudes (degrees) the west and east edges of the viewport take; the  *)
(* bounds are not wrapped, so an edge can lie outside [-180, 180].         *)
Lngs == {-270, -90, 90}
Viewports == {v \in Lngs \X Lngs : v[1] < v[2]}

(* map.style.projection.name; "undefined" is a host without the field (v4).*)
Projections == {"undefined", "mercator", "globe", "vertical-perspective"}

(* options.shaderData.variantName; "" is an absent or empty name.          *)
VariantNames == {"", "globe"}

-----------------------------------------------------------------------------
(* #setIntervalTimer                                                       *)

ActivateAlways(d) == TRUE
ActivateInverted(d) == d # None

Activate(d) == d = None

SetIntervalTimerWithoutClear(d, interval, handle, armed, next) ==
  IF Activate(d) /\ interval > 0
    THEN [handle |-> Some(next), armed |-> armed \cup {next}, next |-> next + 1]
    ELSE [handle |-> None, armed |-> armed, next |-> next]

SetIntervalTimer(d, interval, handle, armed, next) ==
  LET cleared == IF handle # None THEN armed \ {handle[1]} ELSE armed
  IN  IF Activate(d) /\ interval > 0
        THEN [handle |-> Some(next), armed |-> cleared \cup {next}, next |-> next + 1]
        ELSE [handle |-> None, armed |-> cleared, next |-> next]

(* map?.triggerRepaint()                                                   *)
TriggerRepaint(m, pending) == IF m # None THEN TRUE ELSE pending

-----------------------------------------------------------------------------
(* #updateModel                                                            *)

(* MercatorCoordinate.fromLngLat(lng).x = (180 + lng) / 360, floored/ceiled *)
FloorMercatorX(lng) == (180 + lng) \div 360
CeilMercatorX(lng) == 0 - ((0 - (180 + lng)) \div 360)

NumberToString(n) ==
  CASE n = -2 -> "-2" [] n = -1 -> "-1" [] n = 0 -> "0" [] n = 1 -> "1"
    [] n = 2 -> "2" [] n = 3 -> "3" [] OTHER -> "?"

(* [xmin, xmax].join(':')                                                  *)
Join(xmin, xmax) == <<NumberToString(xmin), ":", NumberToString(xmax)>>

GlobeSignature == <<"globe">>

ModelSignatureIgnoringProjection(name, xmin, xmax) == Join(xmin, xmax)
ModelSignatureMercatorOnly(name, xmin, xmax) ==
  IF name = "mercator" THEN Join(xmin, xmax) ELSE GlobeSignature

ModelSignature(name, xmin, xmax) ==
  IF name = "globe" THEN GlobeSignature ELSE Join(xmin, xmax)

AlwaysRebuild(sig, stored) == TRUE

NeedsRebuild(sig, stored) == stored # Some(sig)

(* createTileMesh(granularity 100, both poles, '16bit'): one quad per cell *)
(* of a granularity x (granularity + 2) grid, 6 indices per quad.          *)
Granularity == 100
SphereIndexCount == Granularity * (Granularity + 2) * 6

EmptyBuffer == [kind |-> "empty", data |-> <<>>, byteLength |-> 0]

MeshBuffers(sig, xmin, xmax) ==
  IF sig = GlobeSignature
    THEN [vertices |-> [kind |-> "sphere", data |-> <<>>,
                        byteLength |-> 0],
          indices  |-> [kind |-> "sphere", data |-> <<>>,
                        byteLength |-> 2 * SphereIndexCount]]
    ELSE [vertices |-> [kind |-> "quad",
                        data |-> <<xmin, 0, xmax, 0, xmin, 1, xmin, 1, xmax, 0, xmax, 1>>,
                        byteLength |-> 4 * 12],
          indices  |-> [kind |-> "quad", data |-> <<0, 1, 2, 3, 4, 5>>,
                        byteLength |-> 2 * 6]]

UpdateModel(name, b, stored, idx, vd, id) ==
  LET xmin == FloorMercatorX(b[1])
      xmax == CeilMercatorX(b[2])
      sig  == ModelSignature(name, xmin, xmax)
      mesh == MeshBuffers(sig, xmin, xmax)
  IN  IF ~NeedsRebuild(sig, stored)
        THEN [modelSignature |-> stored, indices |-> idx, vboData |-> vd,
              iboData |-> id, uploaded |-> FALSE]
        ELSE [modelSignature |-> Some(sig),
              indices |-> Some(mesh.indices.byteLength \div 2),
              vboData |-> mesh.vertices, iboData |-> mesh.indices,
              uploaded |-> TRUE]

-----------------------------------------------------------------------------
(* The fragment shader's brightness (#createProgram, fragmentSource).      *)
(* Altitudes are integers in units of 1/AltScale degree, attenuations in   *)
(* units of 1/AttDen; twilightLevel is kept as its numerator over          *)
(* TwilightStepAngle.                                                      *)

AltScale == 10 ^ 7
AttDen == 4
MaxSteps == 3

Deg(d) == d * AltScale

TwilightStepAngle == 6 * AltScale
TwilightBegins == -8333333

Clamp(x, lo, hi) == IF x < lo THEN lo ELSE IF x > hi THEN hi ELSE x
Ceil(num, den) == 0 - ((0 - num) \div den)

(* A brightness: 0 or 1 exactly, (base/AttDen) ^ (level/TwilightStepAngle) *)
(* for 0 < base < AttDen and level # 0, or not a number.                   *)
Exact(n) == <<"exact", n, 1>>
PowValue(base, level) == <<"pow", base, level>>
NaN == <<"nan", 0, 0>>

(* pow(x, y) with x = 0 and y <= 0 is undefined in GLSL, and so is the     *)
(* clamp of what it returns.                                               *)
UndefinedBrightness == {Exact(0), Exact(1), NaN}

SunriseAdjustAtZero(altitude) == altitude > 0

(* if (altitude > twilightBegins)                                          *)
SunriseAdjust(altitude) == altitude > TwilightBegins

TwilightLevelQuantizedUnlessZero(altitude, steps) ==
  IF steps # 0
    THEN IF SunriseAdjust(altitude)
           THEN 0
           ELSE Ceil(Clamp(0 - altitude, 0, steps * TwilightStepAngle), TwilightStepAngle)
                  * TwilightStepAngle
    ELSE 0 - altitude

(* twilightLevel, times TwilightStepAngle                                  *)
TwilightLevel(altitude, steps) ==
  IF steps > 0
    THEN IF SunriseAdjust(altitude)
           THEN 0
           ELSE Ceil(Clamp(0 - altitude, 0, steps * TwilightStepAngle), TwilightStepAngle)
                  * TwilightStepAngle
    ELSE 0 - altitude

(* clamp(pow(clamp(1. - att, 0., 1.), twilightLevel), 0., 1.): the values  *)
(* the build can produce.                                                  *)
Brightness(altitude, steps, att) ==
  LET base  == Clamp(AttDen - att, 0, AttDen)
      level == TwilightLevel(altitude, steps)
  IN  IF base = 0 /\ level <= 0 THEN UndefinedBrightness
      ELSE IF level = 0 \/ base = AttDen THEN {Exact(1)}
      ELSE IF base = 0 THEN {Exact(0)}
      ELSE IF level < 0 THEN {Exact(1)}
      ELSE {PowValue(base, level)}

Altitudes ==
  {Deg(-90), Deg(-18), Deg(-12) - 1, Deg(-12), Deg(-6), Deg(-6) + 1, TwilightBegins - 1,
   TwilightBegins, TwilightBegins + 1, -1, 0, 1, Deg(30), Deg(90)}
StepCounts == -2 .. MaxSteps
Attenuations == -1 .. AttDen + 1

NoShade == [altitude |-> 0, steps |-> 0, att |-> 0, brightness |-> None]
NoSolar == [date |-> <<1, 0>>, point |-> None]

-----------------------------------------------------------------------------
(* getSubsolarPoint, in fixed point: angles in units of 1/Unit radian and  *)
(* sines and cosines in units of 1/Unit; days in hundredths, the equation  *)
(* of time in thousandths of a minute, the longitude in thousandths and    *)
(* the latitude in hundredths of a degree. A date is <<day of the year     *)
(* (1 on January 1st), milliseconds since 0h UTC of that day>>.            *)

Unit == 10 ^ 4
PI == 31416
TwoPI == 2 * PI
HalfPI == PI \div 2

Abs(x) == IF x < 0 THEN 0 - x ELSE x
Sign(x) == IF x < 0 THEN 0 - 1 ELSE 1

(* Math.trunc(num / den), den > 0                                          *)
Trunc(num, den) == Sign(num) * (Abs(num) \div den)

(* a * b / c, c > 0, without an intermediate a * b                         *)
MulDiv(a, b, c) == (a \div c) * b + ((a % c) * b) \div c

(* Math.sin on [0, pi/2]: the Taylor polynomial of degree 9                *)
SinQ(x) ==
  LET x2 == (x * x) \div Unit
      t3 == ((x * x2) \div Unit) \div 6
      t5 == ((t3 * x2) \div Unit) \div 20
      t7 == ((t5 * x2) \div Unit) \div 42
      t9 == ((t7 * x2) \div Unit) \div 72
  IN  Clamp(x - t3 + t5 - t7 + t9, 0, Unit)

(* Math.sin, Math.cos                                                      *)
Sin(x) ==
  LET r == x % TwoPI
  IN  IF r <= HalfPI THEN SinQ(r)
      ELSE IF r <= PI THEN SinQ(PI - r)
      ELSE IF r <= PI + HalfPI THEN 0 - SinQ(r - PI)
      ELSE 0 - SinQ(TwoPI - r)

Cos(x) == Sin(x + HalfPI)

(* Math.asin: the least angle of [0, pi/2] whose sine reaches |y|          *)
RECURSIVE AsinSearch(_, _, _)
AsinSearch(y, lo, hi) ==
  IF lo >= hi THEN lo
  ELSE LET mid == (lo + hi) \div 2
       IN  IF SinQ(mid) >= y THEN AsinSearch(y, lo, mid) ELSE AsinSearch(y, mid + 1, hi)

Asin(y) == Sign(y) * AsinSearch(Abs(y), 0, HalfPI)

(* Math.atan2: the least angle t of [0, pi/2] with |y| cos t <= |x| sin t, *)
(* moved to the quadrant of (x, y)                                         *)
RECURSIVE AtanSearch(_, _, _, _)
AtanSearch(y, x, lo, hi) ==
  IF lo >= hi THEN lo
  ELSE LET mid == (lo + hi) \div 2
       IN  IF y * SinQ(HalfPI - mid) <= x * SinQ(mid)
             THEN AtanSearch(y, x, lo, mid)
             ELSE AtanSearch(y, x, mid + 1, hi)

Atan2(y, x) ==
  LET t == AtanSearch(Abs(y), Abs(x), 0, HalfPI)
  IN  IF x >= 0 THEN Sign(y) * t ELSE Sign(y) * (PI - t)

(* radians(deg), deg in hundredths of a degree; degrees(rad) into them     *)
Radians(deg) == (deg * PI) \div (180 * 100)
Degrees(rad) == Sign(rad) * ((Abs(rad) * 180 * 100) \div PI)

YearLength == 36524
AxialTilt == 2344
Eccentricity == 167

(* D, in hundredths of a day                                               *)
DayOfYear(d) == d[1] * 100 + d[2] \div 864000

(* A = (D + 9) * n and (D - 3) * n, with n = 2 pi / 365.24                 *)
MeanAngle(D, offset) == MulDiv(D + offset * 100, PI, YearLength \div 2)

(* B = A + 2 * E * sin((D - 3) * n)                                        *)
TrueAngle(D) ==
  MeanAngle(D, 9) + (2 * Eccentricity * Sin(MeanAngle(D, 0 - 3))) \div Unit

(* C = (A - atan2(sin B, cos B * cos e)) / pi, times Unit                  *)
TimeOffset(D) ==
  LET B == TrueAngle(D)
      e == Radians(AxialTilt)
  IN  MulDiv(MeanAngle(D, 9) - Atan2(Sin(B), (Cos(B) * Cos(e)) \div Unit), Unit, PI)

EquationOfTimeUnwrapped(C) == (720 * C) \div (Unit \div 1000)

(* EOT = 720 * (C - trunc(C + 0.5)), in thousandths of a minute            *)
EquationOfTime(C) ==
  (720 * (C - Trunc(C + Unit \div 2, Unit) * Unit)) \div (Unit \div 1000)

(* UTC, in milliseconds, from the hours, minutes, seconds and milliseconds *)
UTCTime(d) ==
  LET hours   == d[2] \div 3600000
      minutes == (d[2] \div 60000) % 60
      seconds == (d[2] \div 1000) % 60
      millis  == d[2] % 1000
  IN  hours * 3600000 + minutes * 60000 + seconds * 1000 + millis

GetSubsolarPoint(d) ==
  LET D   == DayOfYear(d)
      EOT == EquationOfTime(TimeOffset(D))
      e   == Radians(AxialTilt)
  IN  [lng |-> 0 - ((UTCTime(d) - 12 * 3600000 + 60 * EOT) \div 240),
       lat |-> Degrees(Asin(((0 - Sin(e)) * Cos(TrueAngle(D))) \div Unit))]

Days == {1, 2, 42, 81, 105, 172, 205, 266, 307, 355, 365, 366}
TimesOfDay == {0, 3723004, 21600000, 43200000, 64800000, 86399999}

-----------------------------------------------------------------------------
(* The parameters of the layer and the uniforms render submits             *)

(* opts.x ?? fallback                                                      *)
OrElse(opt, fallback) == IF opt = None THEN fallback ELSE opt[1]

(* [...color.slice(0, 3), color?.[3] ?? 255]                               *)
NormalizeColorForcedOpaque(c) == SubSeq(c, 1, 3) \o <<255>>

NormalizeColor(c) == SubSeq(c, 1, 3) \o <<IF Len(c) >= 4 THEN c[4] ELSE 255>>

(* premultiplyAlpha: <<r a, g a, b a, a>> with every entry divided by 255  *)
(* first; kept as numerators over 255 * 255.                               *)
PremultiplyAlpha(c) == <<c[1] * c[4], c[2] * c[4], c[3] * c[4], 255 * c[4]>>

(* getSubsolarPoint at the dates the layer can be asked for.               *)
SubsolarPoints == [d \in FixedDates \cup Clocks \cup FrameClocks |-> GetSubsolarPoint(d)]

(* The method getSubsolarPoint(): of this.#date || new Date()              *)
LayerSubsolarPointOfNow(d, now) == SubsolarPoints[now]

LayerSubsolarPoint(d, now) == SubsolarPoints[IF d # None THEN d[1] ELSE now]

NoUniforms == None

UniformsOf(d, now, o, c, dc, steps, att) ==
  Some([u_subsolar             |-> LayerSubsolarPoint(d, now),
        u_opacity              |-> o,
        u_night_color          |-> PremultiplyAlpha(c),
        u_daytime_color        |-> PremultiplyAlpha(dc),
        u_twilight_steps       |-> steps,
        u_twilight_attenuation |-> att])

(* The constructor's argument: every option is None (omitted) or given.    *)
NoOptions ==
  [date |-> None, opacity |-> None, color |-> None, daytimeColor |-> None,
   twilightSteps |-> None, twilightAttenuation |-> None, updateInterval |-> None]

-----------------------------------------------------------------------------
(* render                                                                  *)

ProgramKeyDefaultOnly(variantName) == "default"

(* shaderData.variantName || 'default'                                     *)
ProgramKey(variantName) == IF variantName = "" THEN "default" ELSE variantName

ProgramKeys == {ProgramKey(v) : v \in VariantNames}

(* #createProgram(gl, shaderData): the program is identified by the shader *)
(* data (the variant) it was built from.                                   *)
CreateProgram(variantName) == [shaderData |-> variantName]

(* #programCache: the entries (none when it is undefined), has, get, set.  *)
Programs(pc) == IF pc = None THEN {} ELSE pc[1]
CacheHas(pc, key) == \E e \in Programs(pc) : e[1] = key
CacheGet(pc, key) ==
  IF CacheHas(pc, key) THEN Some((CHOOSE e \in Programs(pc) : e[1] = key)[2]) ELSE None
CacheSet(pc, key, program) ==
  Some({e \in Programs(pc) : e[1] # key} \cup {<<key, program>>})

NoneCompiled == [k \in ProgramKeys |-> 0]

(* What a call of render did: how it ended ("detached": an early return,   *)
(* "threw": #createProgram threw, "drew": it reached drawElements), the    *)
(* configuration of that frame (globe or not, floor of the west edge and   *)
(* ceil of the east edge), whether #updateModel uploaded buffer data, and  *)
(* how the configuration relates to that of the call of render before it,  *)
(* and the program it drew with.                                           *)
NoFrame == [outcome |-> "none", globe |-> FALSE, xmin |-> 0, xmax |-> 0,
            uploaded |-> FALSE, after |-> "first", program |-> None]

After(prev, globe, xmin, xmax) ==
  IF prev.outcome # "drew" THEN "first"
  ELSE IF prev.globe # globe THEN "switch"
  ELSE IF prev.xmin = xmin /\ prev.xmax = xmax THEN "same"
  ELSE "moved"

FrameOf(outcome, uploaded, program) ==
  LET globe == projection = "globe"
      xmin  == IF globe THEN 0 ELSE FloorMercatorX(bounds[1])
      xmax  == IF globe THEN 0 ELSE CeilMercatorX(bounds[2])
  IN  [outcome |-> outcome, globe |-> globe, xmin |-> xmin, xmax |-> xmax,
       uploaded |-> uploaded, after |-> After(frame, globe, xmin, xmax),
       program |-> program]

-----------------------------------------------------------------------------
(* constructor                                                             *)

ConstructedWith(opts) ==
  LET d == opts.date
      i == OrElse(opts.updateInterval, DefaultUpdateInterval)
      t == SetIntervalTimer(d, i, None, {}, 1)
  IN  /\ options = opts
      /\ opacity = OrElse(opts.opacity, DefaultOpacity)
      /\ twilightSteps = OrElse(opts.twilightSteps, DefaultTwilightSteps)
      /\ twilightAttenuation = OrElse(opts.twilightAttenuation, DefaultTwilightAttenuation)
      /\ color = NormalizeColor(OrElse(opts.color, DefaultColor))
      /\ daytimeColor = NormalizeColor(OrElse(opts.daytimeColor, DefaultDaytimeColor))
      /\ date = d
      /\ updateInterval = i
      /\ updateIntervalTimer = t.handle
      /\ timers = t.armed
      /\ nextTimer = t.next
      /\ programCache = None
      /\ map = None
      /\ vbo = None
      /\ ibo = None
      /\ indices = None
      /\ modelSignature = None
      /\ repaintPending = FALSE
      /\ vboData = EmptyBuffer
      /\ iboData = EmptyBuffer
      /\ uniforms = NoUniforms
      /\ compiled = NoneCompiled
      /\ frame = NoFrame
      /\ lastOp = "constructor"

Constructed(d, i) ==
  ConstructedWith([NoOptions EXCEPT !.date = d, !.updateInterval = Some(i)])

Init ==
  /\ \E d \in {None} \cup {Some(x) : x \in FixedDates}, i \in Intervals : Constructed(d, i)
  /\ projection \in Projections
  /\ bounds \in Viewports
  /\ shade = NoShade
  /\ solar = NoSolar

SetDate(d) ==
  /\ nextTimer <= MaxTimers
  /\ LET t == SetIntervalTimer(d, updateInterval, updateIntervalTimer, timers, nextTimer)
     IN  /\ date' = d
         /\ updateIntervalTimer' = t.handle
         /\ timers' = t.armed
         /\ nextTimer' = t.next
  /\ repaintPending' = TriggerRepaint(map, repaintPending)
  /\ lastOp' = "setDate"
  /\ options' = None
  /\ UNCHANGED <<shade, solar, paramVars, updateInterval, programCache, map, vbo, ibo,
                 indices, modelSignature, projection, bounds, vboData, iboData,
                 uniforms, compiled, frame>>

SetOpacity(o) ==
  /\ opacity' = o
  /\ repaintPending' = TriggerRepaint(map, repaintPending)
  /\ lastOp' = "setOpacity"
  /\ options' = None
  /\ UNCHANGED <<shade, solar, date, color, daytimeColor, twilightSteps,
                 twilightAttenuation, updateInterval, updateIntervalTimer, programCache,
                 map, vbo, ibo, indices, modelSignature, timers, nextTimer, projection,
                 bounds, vboData, iboData, uniforms, compiled, frame>>

SetColor(c) ==
  /\ color' = NormalizeColor(c)
  /\ repaintPending' = TriggerRepaint(map, repaintPending)
  /\ lastOp' = "setColor"
  /\ options' = None
  /\ UNCHANGED <<shade, solar, date, opacity, daytimeColor, twilightSteps,
                 twilightAttenuation, updateInterval, updateIntervalTimer, programCache,
                 map, vbo, ibo, indices, modelSignature, timers, nextTimer, projection,
                 bounds, vboData, iboData, uniforms, compiled, frame>>

SetDaytimeColor(c) ==
  /\ daytimeColor' = NormalizeColor(c)
  /\ repaintPending' = TriggerRepaint(map, repaintPending)
  /\ lastOp' = "setDaytimeColor"
  /\ options' = None
  /\ UNCHANGED <<shade, solar, date, opacity, color, twilightSteps,
                 twilightAttenuation, updateInterval, updateIntervalTimer, programCache,
                 map, vbo, ibo, indices, modelSignature, timers, nextTimer, projection,
                 bounds, vboData, iboData, uniforms, compiled, frame>>

SetTwilightSteps(n) ==
  /\ twilightSteps' = n
  /\ repaintPending' = TriggerRepaint(map, repaintPending)
  /\ lastOp' = "setTwilightSteps"
  /\ options' = None
  /\ UNCHANGED <<shade, solar, date, opacity, color, daytimeColor,
                 twilightAttenuation, updateInterval, updateIntervalTimer, programCache,
                 map, vbo, ibo, indices, modelSignature, timers, nextTimer, projection,
                 bounds, vboData, iboData, uniforms, compiled, frame>>

SetTwilightAttenuation(a) ==
  /\ twilightAttenuation' = a
  /\ repaintPending' = TriggerRepaint(map, repaintPending)
  /\ lastOp' = "setTwilightAttenuation"
  /\ options' = None
  /\ UNCHANGED <<shade, solar, date, opacity, color, daytimeColor, twilightSteps,
                 updateInterval, updateIntervalTimer, programCache,
                 map, vbo, ibo, indices, modelSignature, timers, nextTimer, projection,
                 bounds, vboData, iboData, uniforms, compiled, frame>>

SetUpdateInterval(i) ==
  /\ nextTimer <= MaxTimers
  /\ LET t == SetIntervalTimer(date, i, updateIntervalTimer, timers, nextTimer)
     IN  /\ updateInterval' = i
         /\ updateIntervalTimer' = t.handle
         /\ timers' = t.armed
         /\ nextTimer' = t.next
  /\ lastOp' = "setUpdateInterval"
  /\ options' = None
  /\ UNCHANGED <<shade, solar, date, paramVars, programCache, map, vbo, ibo, indices,
                 modelSignature, repaintPending, projection, bounds, vboData, iboData,
                 uniforms, compiled, frame>>

(* The host calls onAdd when the layer is added to the map and onRemove    *)
(* when an added layer is removed from it.                                 *)
OnAdd ==
  /\ map = None
  /\ programCache' = Some({})
  /\ compiled' = NoneCompiled
  /\ vbo' = Some("vbo")
  /\ ibo' = Some("ibo")
  /\ vboData' = EmptyBuffer
  /\ iboData' = EmptyBuffer
  /\ map' = Some("map")
  /\ lastOp' = "onAdd"
  /\ options' = None
  /\ UNCHANGED <<shade, solar, date, paramVars, updateInterval, updateIntervalTimer,
                 indices, modelSignature, timers, nextTimer, repaintPending, projection,
                 bounds, uniforms, frame>>

OnRemove ==
  /\ map # None
  /\ programCache' = None
  /\ compiled' = NoneCompiled
  /\ map' = None
  /\ vbo' = None
  /\ ibo' = None
  /\ lastOp' = "onRemove"
  /\ options' = None
  /\ UNCHANGED <<shade, solar, date, paramVars, updateInterval, updateIntervalTimer,
                 indices, modelSignature, timers, nextTimer, repaintPending, projection,
                 bounds, vboData, iboData, uniforms, frame>>

(* render's early returns: nothing is done unless the layer holds its      *)
(* program cache, both buffers and the map.                                *)
DetachedNever(pc, v, i, m) == FALSE

Detached(pc, v, i, m) == pc = None \/ v = None \/ i = None \/ m = None

(* render(gl, options): glOk is whether the GL context still creates       *)
(* shader and program objects (#createProgram throws when it does not),    *)
(* now is what new Date() returns.                                         *)
Render(variantName, glOk, now) ==
  LET key == ProgramKey(variantName) IN
  /\ lastOp' = "render"
  /\ options' = None
  /\ repaintPending' = FALSE
  /\ UNCHANGED <<shade, solar, date, paramVars, updateInterval, updateIntervalTimer, map,
                 vbo, ibo, timers, nextTimer, projection, bounds>>
  /\ IF Detached(programCache, vbo, ibo, map)
       THEN /\ frame' = FrameOf("detached", FALSE, None)
            /\ UNCHANGED <<programCache, compiled, indices, modelSignature, vboData,
                           iboData, uniforms>>
       ELSE IF ~CacheHas(programCache, key) /\ ~glOk
         THEN /\ frame' = FrameOf("threw", FALSE, None)
              /\ UNCHANGED <<programCache, compiled, indices, modelSignature, vboData,
                             iboData, uniforms>>
         ELSE LET hit   == CacheHas(programCache, key)
                  cache == IF hit THEN programCache
                           ELSE CacheSet(programCache, key, CreateProgram(variantName))
                  m     == UpdateModel(projection, bounds, modelSignature, indices,
                                       vboData, iboData)
              IN  /\ programCache' = cache
                  /\ compiled' = IF hit THEN compiled
                                 ELSE [compiled EXCEPT ![key] = @ + 1]
                  /\ uniforms' = UniformsOf(date, now, opacity, color, daytimeColor,
                                            twilightSteps, twilightAttenuation)
                  /\ modelSignature' = m.modelSignature
                  /\ indices' = m.indices
                  /\ vboData' = m.vboData
                  /\ iboData' = m.iboData
                  /\ frame' = FrameOf("drew", m.uploaded, CacheGet(cache, key))

(* The interval timer's callback: () => this.#map?.triggerRepaint()        *)
Tick ==
  /\ timers # {}
  /\ repaintPending' = TriggerRepaint(map, repaintPending)
  /\ lastOp' = "host"
  /\ options' = None
  /\ UNCHANGED <<shade, solar, layerVars, timers, nextTimer, projection, bounds, vboData,
                 iboData, uniforms, compiled, frame>>

(* The host: map.setProjection and a pan or zoom of the viewport.          *)
SetProjection(p) ==
  /\ p # projection
  /\ projection' = p
  /\ lastOp' = "host"
  /\ options' = None
  /\ UNCHANGED <<shade, solar, layerVars, timers, nextTimer, repaintPending, bounds,
                 vboData, iboData, uniforms, compiled, frame>>

MoveViewport(v) ==
  /\ v # bounds
  /\ bounds' = v
  /\ lastOp' = "host"
  /\ options' = None
  /\ UNCHANGED <<shade, solar, layerVars, timers, nextTimer, repaintPending, projection,
                 vboData, iboData, uniforms, compiled, frame>>

Next ==
  \/ \E d \in {None} \cup {Some(x) : x \in FixedDates} : SetDate(d)
  \/ \E i \in Intervals : SetUpdateInterval(i)
  \/ OnAdd
  \/ OnRemove
  \/ \E k \in VariantNames, ok \in BOOLEAN, now \in Clocks : Render(k, ok, now)
  \/ Tick
  \/ \E p \in Projections : SetProjection(p)
  \/ \E v \in Viewports : MoveViewport(v)

Spec == Init /\ [][Next]_vars

-----------------------------------------------------------------------------
(* The parameters of an attached or detached layer under one projection    *)
(* and viewport, without interval timer: the setters, onAdd, onRemove and  *)
(* render.                                                                 *)

InitFrame ==
  /\ ConstructedWith([NoOptions EXCEPT !.updateInterval = Some(0)])
  /\ projection = "mercator"
  /\ bounds = <<-90, 90>>
  /\ shade = NoShade
  /\ solar = NoSolar

NextFrame ==
  \/ \E d \in {None} \cup {Some(x) : x \in FixedDates} : SetDate(d)
  \/ \E o \in Opacities : SetOpacity(o)
  \/ \E c \in Colors : SetColor(c)
  \/ \E c \in DaytimeColors : SetDaytimeColor(c)
  \/ \E n \in TwilightStepCounts : SetTwilightSteps(n)
  \/ \E a \in TwilightAttenuations : SetTwilightAttenuation(a)
  \/ OnAdd
  \/ OnRemove
  \/ \E ok \in BOOLEAN, now \in FrameClocks : Render("", ok, now)

SpecFrame == InitFrame /\ [][NextFrame]_vars

-----------------------------------------------------------------------------
(* The constructor under any options, and the setters of a layer that is   *)
(* not attached.                                                           *)

Optional(S) == {None} \cup {Some(x) : x \in S}

AllOptions ==
  [date : Optional(FixedDates), opacity : Optional(Opacities), color : Optional(Colors),
   daytimeColor : Optional(DaytimeColors), twilightSteps : Optional(TwilightStepCounts),
   twilightAttenuation : Optional(TwilightAttenuations),
   updateInterval : Optional(Intervals)]

InitOptions ==
  /\ \E opts \in AllOptions : ConstructedWith(opts)
  /\ projection = "mercator"
  /\ bounds = <<-90, 90>>
  /\ shade = NoShade
  /\ solar = NoSolar

NextOptions ==
  \/ \E d \in Optional(FixedDates) : SetDate(d)
  \/ \E o \in Opacities : SetOpacity(o)
  \/ \E c \in Colors : SetColor(c)
  \/ \E c \in DaytimeColors : SetDaytimeColor(c)
  \/ \E n \in TwilightStepCounts : SetTwilightSteps(n)
  \/ \E a \in TwilightAttenuations : SetTwilightAttenuation(a)
  \/ \E i \in Intervals : SetUpdateInterval(i)

SpecOptions == InitOptions /\ [][NextOptions]_vars

-----------------------------------------------------------------------------
(* The shading function alone: one fragment of any altitude, under any     *)
(* u_twilight_steps and u_twilight_attenuation.                            *)

Idle ==
  /\ Constructed(None, DefaultUpdateInterval)
  /\ projection = "mercator"
  /\ bounds = <<-90, 90>>

InitShade ==
  /\ Idle
  /\ shade \in [altitude : Altitudes, steps : StepCounts, att : Attenuations,
                brightness : {None}]
  /\ solar = NoSolar

Illuminate ==
  /\ shade.brightness = None
  /\ \E b \in Brightness(shade.altitude, shade.steps, shade.att) :
       shade' = [shade EXCEPT !.brightness = Some(b)]
  /\ UNCHANGED <<solar, layerVars, hostVars>>

NextShade == Illuminate

SpecShade == InitShade /\ [][NextShade]_vars

-----------------------------------------------------------------------------
(* getSubsolarPoint alone, at any date.                                    *)

InitSolar ==
  /\ Idle
  /\ shade = NoShade
  /\ solar \in [date : Days \X TimesOfDay, point : {None}]

Compute ==
  /\ solar.point = None
  /\ solar' = [solar EXCEPT !.point = Some(GetSubsolarPoint(solar.date))]
  /\ UNCHANGED <<shade, layerVars, hostVars>>

NextSolar == Compute

SpecSolar == InitSolar /\ [][NextSolar]_vars

-----------------------------------------------------------------------------
(* Properties of the layer                                                 *)

AnyRender == \E k \in VariantNames, ok \in BOOLEAN, now \in Clocks : Render(k, ok, now)

(* The signature of the geometry a vertex buffer holds.                    *)
SignatureOf(vd) ==
  CASE vd.kind = "sphere" -> Some(GlobeSignature)
    [] vd.kind = "quad"   -> Some(Join(vd.data[1], vd.data[3]))
    [] OTHER              -> None

(* C1: once onRemove has run, no interval timer of the layer is armed.     *)
C1_NoTimerAfterRemove == lastOp = "onRemove" => timers = {}

(* C2: when render has issued its draw call, #modelSignature is the        *)
(* signature of the geometry held in the vertex and index buffers and      *)
(* #indices is the index count of that geometry.                           *)
C2_SignatureMatchesBuffers ==
  (lastOp = "render" /\ frame.outcome = "drew") =>
    /\ modelSignature = SignatureOf(vboData)
    /\ iboData.kind = vboData.kind
    /\ indices = Some(iboData.byteLength \div 2)

(* C3: while a fixed date is set, no interval timer is armed and no timer  *)
(* handle is stored.                                                       *)
C3_NoTimerWhileFixedDate ==
  date # None => (timers = {} /\ updateIntervalTimer = None)

C3_Witness ==
  date # None /\ lastOp = "setUpdateInterval" /\ updateInterval > 0 /\ nextTimer > 1

(* C4 as stated: after every setDate(null) an interval timer is armed.     *)
C4_TimerArmedAfterClear == (lastOp = "setDate" /\ date = None) => timers # {}

(* C4 as amended: after setDate(null) exactly the timer whose handle is    *)
(* stored is armed when updateInterval > 0, and none is when it is <= 0.   *)
C4_TimerArmedIffPositiveInterval ==
  (lastOp = "setDate" /\ date = None) =>
    IF updateInterval > 0
      THEN updateIntervalTimer # None /\ timers = {updateIntervalTimer[1]}
      ELSE updateIntervalTimer = None /\ timers = {}

C4_Witness ==
  lastOp = "setDate" /\ date = None /\ updateInterval > 0 /\ timers # {} /\ nextTimer > 2

(* C5: a render of a configuration (mode, floor of the west edge, ceil of  *)
(* the east edge) equal to that of the render before it, which drew,       *)
(* uploads nothing and leaves signature, buffers and index count as they   *)
(* were.                                                                   *)
C5_NoRebuildWhenUnchanged ==
  [][(AnyRender /\ frame'.after = "same") =>
       (~frame'.uploaded /\ UNCHANGED <<modelSignature, indices, vboData, iboData>>)]_vars

C5_Witness ==
  /\ lastOp = "render" /\ frame.outcome = "drew" /\ frame.after = "same"
  /\ ~frame.globe /\ ~frame.uploaded /\ vboData.kind = "quad"

(* C6: a render that draws in the other mode than the render before it     *)
(* uploads the geometry of the new mode, and no render draws the sphere    *)
(* under a FLAT signature or the quad under the GLOBE signature.           *)
C6_ModeSwitchRebuilds ==
  [][AnyRender =>
       /\ (frame'.outcome = "drew" /\ frame'.after = "switch") =>
            /\ frame'.uploaded
            /\ vboData'.kind = (IF frame'.globe THEN "sphere" ELSE "quad")
            /\ iboData'.kind = vboData'.kind
            /\ modelSignature' = SignatureOf(vboData')
       /\ frame'.outcome = "drew" =>
            /\ ~(vboData'.kind = "sphere" /\ modelSignature' # Some(GlobeSignature))
            /\ ~(vboData'.kind = "quad" /\ modelSignature' = Some(GlobeSignature))]_vars

C6_Witness ==
  /\ lastOp = "render" /\ frame.outcome = "drew" /\ frame.after = "switch"
  /\ ~frame.globe /\ frame.uploaded /\ vboData.kind = "quad"

(* C7: once onRemove has run, the program cache, both buffers and the      *)
(* cached geometry entry (signature and index count) are all cleared.      *)
C7_RemoveReleasesAll ==
  lastOp = "onRemove" =>
    /\ programCache = None /\ vbo = None /\ ibo = None
    /\ modelSignature = None /\ indices = None

(* C8 as stated: a render under a projection that is neither mercator nor  *)
(* globe does not build and draw geometry (the builder reports an error).  *)
C8_UnsupportedProjectionFails ==
  (lastOp = "render" /\ projection = "vertical-perspective") => frame.outcome # "drew"

(* C8 as amended: under any projection name other than 'globe' (mercator,  *)
(* none, or an unsupported one) the builder reports nothing and treats the *)
(* frame as FLAT: the signature is xmin:xmax and what it uploads is the    *)
(* quad of 6 indices over [xmin, xmax].                                    *)
C8_NonGlobeBuiltAsFlat ==
  (lastOp = "render" /\ projection # "globe" /\ frame.outcome = "drew") =>
    LET xmin == FloorMercatorX(bounds[1])
        xmax == CeilMercatorX(bounds[2])
    IN  /\ modelSignature = Some(Join(xmin, xmax))
        /\ frame.uploaded =>
             /\ vboData = MeshBuffers(Join(xmin, xmax), xmin, xmax).vertices
             /\ vboData.kind = "quad"
             /\ indices = Some(6)

C8_Witness ==
  /\ lastOp = "render" /\ projection = "vertical-perspective"
  /\ frame.outcome = "drew" /\ frame.uploaded /\ vboData.kind = "quad"

(* C9 as stated: with twilightSteps >= 1 the brightness is exactly 1 for   *)
(* every altitude >= twilightBegins and every attenuation.                 *)
C9_FullDaylightFromTwilightBegins ==
  (shade.brightness # None /\ shade.steps >= 1 /\ shade.altitude >= TwilightBegins) =>
    shade.brightness = Some(Exact(1))

(* C9 as amended: with twilightSteps >= 1 the brightness is exactly 1 for  *)
(* every altitude strictly above twilightBegins and every attenuation      *)
(* below 1; at altitude = twilightBegins the level is 1 and the brightness *)
(* is clamp(1 - attenuation, 0, 1).                                        *)
C9_FullDaylightAboveTwilightBegins ==
  (shade.brightness # None /\ shade.steps >= 1) =>
    /\ (shade.altitude > TwilightBegins /\ shade.att < AttDen) =>
         shade.brightness = Some(Exact(1))
    /\ (shade.altitude = TwilightBegins /\ shade.att > 0 /\ shade.att < AttDen) =>
         shade.brightness = Some(PowValue(AttDen - shade.att, TwilightStepAngle))
    /\ (shade.altitude = TwilightBegins /\ shade.att >= AttDen) =>
         shade.brightness = Some(Exact(0))

C9_Witness ==
  /\ shade.brightness = Some(Exact(1)) /\ shade.steps >= 1
  /\ shade.altitude > TwilightBegins /\ shade.altitude < 0
  /\ shade.att > 0 /\ shade.att < AttDen

(* C10 as stated: the latitude is in [-23.44, 23.44] degrees and the       *)
(* longitude in (-180, 180] degrees.                                       *)
C10_LatitudeAndLongitudeInRange ==
  solar.point # None =>
    /\ Abs(solar.point[1].lat) <= AxialTilt
    /\ solar.point[1].lng > 0 - 180 * 1000
    /\ solar.point[1].lng <= 180 * 1000

(* C10 as amended: the latitude is in [-23.44, 23.44] degrees and the      *)
(* longitude in [-185, 185] degrees, 180 plus the 15 * 20 / 60 degrees of  *)
(* an equation of time of 20 minutes.                                      *)
C10_LongitudeWithinEquationOfTime ==
  solar.point # None =>
    /\ Abs(solar.point[1].lat) <= AxialTilt
    /\ Abs(solar.point[1].lng) <= (180 + (15 * 20) \div 60) * 1000

C10_Witness ==
  /\ solar.point # None
  /\ solar.point[1].lng > 180 * 1000
  /\ solar.point[1].lat < 0

(* C11: with twilightSteps < 0 the brightness is the one of continuous     *)
(* mode (twilightSteps = 0): the level is -altitude / twilightStepAngle,   *)
(* not quantized and not forced to zero.                                   *)
C11_NegativeStepsAreContinuous ==
  (shade.brightness # None /\ shade.steps < 0) =>
    /\ TwilightLevel(shade.altitude, shade.steps) = 0 - shade.altitude
    /\ shade.brightness[1] \in Brightness(shade.altitude, 0, shade.att)
    /\ Brightness(shade.altitude, shade.steps, shade.att)
         = Brightness(shade.altitude, 0, shade.att)

C11_Witness ==
  /\ shade.steps < 0 /\ shade.altitude < TwilightBegins
  /\ shade.att > 0 /\ shade.att < AttDen
  /\ shade.brightness = Some(PowValue(AttDen - shade.att, 0 - shade.altitude))

(* C16: at most one interval timer is armed at any time; the stored handle *)
(* is defined exactly when a timer is armed and is the handle of that      *)
(* timer; and a timer is armed exactly when the date is null and the       *)
(* update interval is positive.                                            *)
C16_AtMostOneTimer ==
  /\ Cardinality(timers) <= 1
  /\ updateIntervalTimer # None <=> timers # {}
  /\ updateIntervalTimer # None => timers = {updateIntervalTimer[1]}
  /\ timers # {} <=> (date = None /\ updateInterval > 0)

C16_Witness ==
  /\ lastOp \in {"setDate", "setUpdateInterval"}
  /\ nextTimer > 2
  /\ timers = {nextTimer - 1}
  /\ updateIntervalTimer = Some(nextTimer - 1)

(* C13: after every render of an attached layer under a projection other   *)
(* than globe, the buffers hold one quad of two triangles (6 indices)      *)
(* spanning [xmin, xmax] x [0, 1], where xmin = floor(west x) <= west x    *)
(* and xmax = ceil(east x) >= east x for that frame's viewport, and the    *)
(* signature is the pair xmin:xmax.                                        *)
C13_FlatQuadCoversViewport ==
  (lastOp = "render" /\ frame.outcome = "drew" /\ projection # "globe") =>
    LET xmin == FloorMercatorX(bounds[1])
        xmax == CeilMercatorX(bounds[2])
    IN  /\ xmin * 360 <= 180 + bounds[1]
        /\ xmax * 360 >= 180 + bounds[2]
        /\ modelSignature = Some(<<NumberToString(xmin), ":", NumberToString(xmax)>>)
        /\ vboData.kind = "quad"
        /\ vboData.data = <<xmin, 0, xmax, 0, xmin, 1, xmin, 1, xmax, 0, xmax, 1>>
        /\ iboData.data = <<0, 1, 2, 3, 4, 5>>
        /\ indices = Some(6)

(* C15: a render of a layer that is not attached (before the first onAdd   *)
(* or after onRemove) compiles nothing, uploads nothing, draws nothing and *)
(* leaves every field of the layer unchanged.                              *)
C15_DetachedRenderIsNoOp ==
  [][(AnyRender /\ map = None) =>
       /\ frame'.outcome = "detached"
       /\ ~frame'.uploaded
       /\ UNCHANGED <<layerVars, timers, nextTimer, vboData, iboData, uniforms, compiled>>]_vars

C15_Witness ==
  /\ lastOp = "render" /\ frame.outcome = "detached"
  /\ map = None /\ modelSignature # None

(* C14: during one attachment no program key has more than one program     *)
(* compiled for it, and every render that draws uses the program that the  *)
(* cache holds under the key of that frame (its variant name, or 'default' *)
(* when it has none), built from that frame's shader data or an earlier    *)
(* frame's of the same key.                                                *)
C14_OneProgramPerKey ==
  [][/\ \A key \in DOMAIN compiled' : compiled'[key] <= 1
     /\ \A k \in VariantNames, ok \in BOOLEAN, now \in Clocks :
          (Render(k, ok, now) /\ frame'.outcome = "drew") =>
            LET key == IF k = "" THEN "default" ELSE k
            IN  /\ frame'.program = Some([shaderData |-> k])
                /\ <<key, frame'.program[1]>> \in programCache'[1]
                /\ compiled'[key] = 1
                /\ \A e \in programCache'[1] : e[1] = key => e[2] = frame'.program[1]]_vars

C14_Witness ==
  /\ lastOp = "render" /\ frame.outcome = "drew" /\ ~frame.uploaded
  /\ frame.program = Some([shaderData |-> "globe"])
  /\ programCache = Some({<<"default", [shaderData |-> ""]>>,
                          <<"globe", [shaderData |-> "globe"]>>})

(* C12: a layer has the documented default for every option its           *)
(* constructor was not given (date null, opacity 0.5, color [0,0,0,255],   *)
(* daytimeColor [0,0,0,0], twilightSteps 0, twilightAttenuation 0.5,       *)
(* updateInterval 10000), and a parameter keeps its value until its own    *)
(* setter is called.                                                       *)
C12_DefaultsUntilSet ==
  /\ [](lastOp = "constructor" =>
         /\ options.date = None => date = None
         /\ options.opacity = None => opacity * 2 = Milli
         /\ options.color = None => color = <<0, 0, 0, 255>>
         /\ options.daytimeColor = None => daytimeColor = <<0, 0, 0, 0>>
         /\ options.twilightSteps = None => twilightSteps = 0
         /\ options.twilightAttenuation = None => twilightAttenuation * 2 = Milli
         /\ options.updateInterval = None => updateInterval = 10000)
  /\ [][/\ date' # date => \E d \in Optional(FixedDates) : SetDate(d)
        /\ opacity' # opacity => \E o \in Opacities : SetOpacity(o)
        /\ color' # color => \E c \in Colors : SetColor(c)
        /\ daytimeColor' # daytimeColor => \E c \in DaytimeColors : SetDaytimeColor(c)
        /\ twilightSteps' # twilightSteps =>
             \E n \in TwilightStepCounts : SetTwilightSteps(n)
        /\ twilightAttenuation' # twilightAttenuation =>
             \E a \in TwilightAttenuations : SetTwilightAttenuation(a)
        /\ updateInterval' # updateInterval =>
             \E i \in Intervals : SetUpdateInterval(i)]_vars

C12_Witness ==
  /\ lastOp = "constructor" /\ options = NoOptions
  /\ date = None /\ opacity = DefaultOpacity /\ color = DefaultColor
  /\ daytimeColor = DefaultDaytimeColor /\ twilightSteps = DefaultTwilightSteps
  /\ twilightAttenuation = DefaultTwilightAttenuation
  /\ updateInterval = DefaultUpdateInterval

(* C17: on an attached layer each of setDate, setOpacity, setColor,        *)
(* setDaytimeColor, setTwilightSteps and setTwilightAttenuation requests a *)
(* repaint; every render that draws submits the current parameters as its  *)
(* uniforms (colours premultiplied by alpha), the subsolar point being     *)
(* that of the fixed date when one is set and of the wall clock when the   *)
(* date is null; and render changes no parameter.                          *)
C17_ParametersReachNextFrame ==
  [][/\ ( /\ map # None
          /\ \/ \E d \in Optional(FixedDates) : SetDate(d)
             \/ \E o \in Opacities : SetOpacity(o)
             \/ \E c \in Colors : SetColor(c)
             \/ \E c \in DaytimeColors : SetDaytimeColor(c)
             \/ \E n \in TwilightStepCounts : SetTwilightSteps(n)
             \/ \E a \in TwilightAttenuations : SetTwilightAttenuation(a) )
        => repaintPending'
     /\ \A ok \in BOOLEAN, now \in FrameClocks :
          Render("", ok, now) =>
            /\ UNCHANGED <<date, paramVars>>
            /\ frame'.outcome = "drew" =>
                 /\ uniforms' # None
                 /\ uniforms'[1].u_subsolar =
                      SubsolarPoints[IF date = None THEN now ELSE date[1]]
                 /\ uniforms'[1].u_opacity = opacity
                 /\ uniforms'[1].u_night_color =
                      <<color[1] * color[4], color[2] * color[4], color[3] * color[4],
                        255 * color[4]>>
                 /\ uniforms'[1].u_daytime_color =
                      <<daytimeColor[1] * daytimeColor[4], daytimeColor[2] * daytimeColor[4],
                        daytimeColor[3] * daytimeColor[4], 255 * daytimeColor[4]>>
                 /\ uniforms'[1].u_twilight_steps = twilightSteps
                 /\ uniforms'[1].u_twilight_attenuation = twilightAttenuation]_vars

C17_Witness ==
  /\ lastOp = "render" /\ frame.outcome = "drew" /\ date = None
  /\ opacity = Milli /\ color = <<255, 128, 0, 255>>
  /\ daytimeColor = <<255, 255, 255, 128>> /\ twilightSteps = 2
  /\ twilightAttenuation = Milli \div 4
  /\ uniforms # None
  /\ uniforms[1].u_subsolar = GetSubsolarPoint(<<355, 0>>)
  /\ uniforms[1].u_opacity = Milli
  /\ uniforms[1].u_night_color = <<255 * 255, 128 * 255, 0, 255 * 255>>

====
